---- MODULE Spec2Model ----
(***************************************************************************)
(* Model of src/bot.py: the per-user session kept in context.user_data,    *)
(* the rate limiter, the caption generator with its local fallback, and    *)
(* the message / regenerate / callback handlers.                           *)
(*                                                                         *)
(* Python values are modelled as follows.                                  *)
(*   str   : a TLA+ string (non-ASCII characters of the literals, i.e. the *)
(*           emoji and the em dash, are left out or written "-")           *)
(*   list  : a sequence                                                    *)
(*   dict  : a function whose domain is the set of keys present            *)
(*   a value of unknown type (an element of the backend's array):          *)
(*           a record tagged by t, [t |-> "dict", d |-> ...] and so on     *)
(* The handlers run one at a time (main builds the application without     *)
(* concurrent updates), so each handler is one action of Spec.  SpecConc   *)
(* is the same code with two handlers of one user in flight, each cut at   *)
(* its await expressions.                                                  *)
(***************************************************************************)
EXTENDS Integers, Sequences, FiniteSets, TLC

VARIABLES
    api_key,    \* ANTHROPIC_API_KEY is set (fixed at process start)
    now,        \* datetime.now(), in seconds
    user_data,  \* context.user_data of the user: a dict
    ev,         \* the event handled last and how its handler ended
    replies,    \* the messages the last handler sent, in order
    gen,        \* the last call of generate_captions: inputs and result
    tasks       \* the handler coroutines in flight, when updates run concurrently

vars == <<api_key, now, user_data, ev, replies, gen, tasks>>

\* ---------------------------------------------------------------- bounds
MaxTime == 11

\* ------------------------------------------------------------- constants
RATE_LIMIT_SECONDS == 10
MAX_FILE_SIZE == 5 * 1024 * 1024
HookLen == 60

\* ------------------------------------------------------- Python helpers
Min(a, b) == IF a <= b THEN a ELSE b

CharAt(s, i) == SubSeq(s, i, i)

\* s[:n]
Prefix(s, n) == SubSeq(s, 1, Min(n, Len(s)))

\* s[n:]  (n counted from 0)
Suffix(s, n) == IF n >= Len(s) THEN SubSeq(s, 1, 0) ELSE SubSeq(s, n + 1, Len(s))

StartsWith(s, p) == Len(s) >= Len(p) /\ SubSeq(s, 1, Len(p)) = p

IsSpace(c) == c = " " \/ c = "\n" \/ c = "\t"

RECURSIVE LStrip(_)
LStrip(s) == IF Len(s) > 0 /\ IsSpace(CharAt(s, 1)) THEN LStrip(Suffix(s, 1)) ELSE s

RECURSIVE RStrip(_)
RStrip(s) == IF Len(s) > 0 /\ IsSpace(CharAt(s, Len(s))) THEN RStrip(Prefix(s, Len(s) - 1)) ELSE s

\* str.strip()
Strip(s) == RStrip(LStrip(s))

\* " ".join(parts)
RECURSIVE JoinSpace(_)
JoinSpace(parts) ==
    IF Len(parts) = 0 THEN ""
    ELSE IF Len(parts) = 1 THEN parts[1]
    ELSE parts[1] \o " " \o JoinSpace(Tail(parts))

LowerAlpha == "abcdefghijklmnopqrstuvwxyz"
UpperAlpha == "ABCDEFGHIJKLMNOPQRSTUVWXYZ"

\* the lower-case letter of each upper-case letter, and the converse
ToLower == [c \in {CharAt(UpperAlpha, i) : i \in 1..26} |->
               CharAt(LowerAlpha, CHOOSE i \in 1..26 : CharAt(UpperAlpha, i) = c)]
ToUpper == [c \in {CharAt(LowerAlpha, i) : i \in 1..26} |->
               CharAt(UpperAlpha, CHOOSE i \in 1..26 : CharAt(LowerAlpha, i) = c)]

LowerChar(c) == IF c \in DOMAIN ToLower THEN ToLower[c] ELSE c

UpperChar(c) == IF c \in DOMAIN ToUpper THEN ToUpper[c] ELSE c

\* str.lower()
RECURSIVE Lower(_)
Lower(s) == IF Len(s) = 0 THEN s ELSE LowerChar(CharAt(s, 1)) \o Lower(Suffix(s, 1))

\* str.capitalize()
Capitalize(s) == IF Len(s) = 0 THEN s ELSE UpperChar(CharAt(s, 1)) \o Lower(Suffix(s, 1))

\* s.split(sep) for a one-character sep
RECURSIVE SplitAcc(_, _, _)
SplitAcc(s, sep, cur) ==
    IF Len(s) = 0 THEN <<cur>>
    ELSE IF CharAt(s, 1) = sep THEN <<cur>> \o SplitAcc(Suffix(s, 1), sep, "")
    ELSE SplitAcc(Suffix(s, 1), sep, cur \o CharAt(s, 1))

Split(s, sep) == SplitAcc(s, sep, "")

Digits == "0123456789"

IsDigit(c) == \E i \in 1..10 : CharAt(Digits, i) = c

DigitVal(c) == (CHOOSE i \in 1..10 : CharAt(Digits, i) = c) - 1

RECURSIVE NatVal(_, _)
NatVal(s, acc) == IF Len(s) = 0 THEN acc ELSE NatVal(Suffix(s, 1), 10 * acc + DigitVal(CharAt(s, 1)))

\* int(s) succeeds: an optional sign followed by at least one digit
IsInt(s) ==
    LET body == IF Len(s) > 0 /\ CharAt(s, 1) \in {"-", "+"} THEN Suffix(s, 1) ELSE s
    IN  Len(body) > 0 /\ \A i \in 1..Len(body) : IsDigit(CharAt(body, i))

\* int(s), for s with IsInt(s)
IntOf(s) ==
    IF CharAt(s, 1) = "-" THEN 0 - NatVal(Suffix(s, 1), 0)
    ELSE IF CharAt(s, 1) = "+" THEN NatVal(Suffix(s, 1), 0)
    ELSE NatVal(s, 0)

\* dict helpers: key in d, d[key] = v
EmptyDict == [k \in {} |-> 0]
Has(d, k) == k \in DOMAIN d
Put(d, k, v) == [j \in DOMAIN d \cup {k} |-> IF j = k THEN v ELSE d[j]]

\* ------------------------------------------------- values of unknown type
\* An element of the parsed completion, or the parsed completion itself.
PyList(items) == [t |-> "list", items |-> items]
PyTuple(items) == [t |-> "tuple", elems |-> items]
PyDict(d) == [t |-> "dict", d |-> d]
PyInt(n) == [t |-> "int", n |-> n]
PyNone == [t |-> "none"]

\* ---------------------------------------------------- get_system_prompt
PlatformSpecs ==
    [instagram |-> "Instagram: Visual, engaging, story-driven.",
     tiktok    |-> "TikTok: Fun, trendy, short-form video style.",
     twitter   |-> "Twitter: Concise, witty, thread-friendly.",
     default   |-> "General social media: Versatile and impactful."]

\* The template is abbreviated to the line that carries the placeholder and
\* the line that asks for the JSON array.
get_system_prompt(platform) ==
    LET key  == Lower(platform)
        spec == IF key \in DOMAIN PlatformSpecs THEN PlatformSpecs[key] ELSE PlatformSpecs["default"]
    IN  "Generate 3 high-impact captions tailored for " \o spec \o "\nReturn ONLY a valid JSON array"

\* ---------------------------------------------------- generate_captions
\* bot.py 107-112: the text parts of the content items
RECURSIVE TextParts(_)
TextParts(content) ==
    IF Len(content) = 0 THEN <<>>
    ELSE LET c == Head(content)
             part == IF Has(c, "type") /\ c["type"] = "text"
                     THEN <<IF Has(c, "text") THEN c["text"] ELSE "">>
                     ELSE IF Has(c, "type") /\ c["type"] = "image"
                     THEN <<"[image provided]">>
                     ELSE <<>>
         IN  part \o TextParts(Tail(content))

\* bot.py 113
ContextText(content) ==
    LET joined == Strip(JoinSpace(TextParts(content)))
    IN  IF Len(joined) > 0 THEN joined ELSE "No context provided"

\* the local generator with the user's platform interpolated into the hooks
Fallback_platform(context_text) ==
    LET tag == IF Has(user_data, "platform") THEN user_data["platform"] ELSE "default"
        hooks == <<"Make them stop scrolling - " \o tag \o " - " \o Prefix(context_text, HookLen),
                   "You won't believe this - " \o tag \o " - " \o Prefix(context_text, HookLen),
                   "Quick tip: " \o tag \o " - " \o Prefix(context_text, HookLen)>>
        bodies == <<context_text \o ". Keep it concise and add value in the first two lines.",
                    context_text \o ". Tell a short story and relate to the audience.",
                    context_text \o ". Ask a question to boost comments and engagement.">>
        ctas == <<"Learn more", "Save this", "Share your thoughts">>
        hashtags == <<"#viral", "#tips", "#content">>
    IN  [i \in 1..3 |-> PyDict([hook |-> hooks[i], body |-> bodies[i],
                                cta |-> ctas[i], hashtags |-> hashtags[i]])]

\* bot.py 147-170: the local generator
Fallback(context_text) ==
    LET hooks == <<"Make them stop scrolling - " \o Prefix(context_text, HookLen),
                   "You won't believe this - " \o Prefix(context_text, HookLen),
                   "Quick tip: " \o Prefix(context_text, HookLen)>>
        bodies == <<context_text \o ". Keep it concise and add value in the first two lines.",
                    context_text \o ". Tell a short story and relate to the audience.",
                    context_text \o ". Ask a question to boost comments and engagement.">>
        ctas == <<"Learn more", "Save this", "Share your thoughts">>
        hashtags == <<"#viral", "#tips", "#content">>
    IN  [i \in 1..3 |-> PyDict([hook |-> hooks[i], body |-> bodies[i],
                                cta |-> ctas[i], hashtags |-> hashtags[i]])]

\* The answer of the backend to one request.  kind is what requests.post and
\* raise_for_status do; body is the value of res.json() (PyNone: the body is
\* not JSON).  A completion is text, described by what the two parsers make of
\* it: fence (it is wrapped in ``` markers), syntax (which parser accepts the
\* text between the markers) and value (what that text denotes).
Completion(fence, syntax, value) == [fence |-> fence, syntax |-> syntax, value |-> value]

\* line 136 without the two replace calls: the markers stay in the text
Cleaned_keep(completion) == completion

\* bot.py 136: completion.replace("```json", "").replace("```", "").strip()
Cleaned(completion) == [completion EXCEPT !.fence = FALSE]

\* bot.py 138: ast.literal_eval(cleaned) returns a value
LiteralEvalOk(text) == ~text.fence /\ text.syntax \in {"python", "both"}

\* bot.py 140: json.loads(cleaned) returns a value
JsonLoadsOk(text) == ~text.fence /\ text.syntax \in {"json", "both"}

\* line 141 without the test of the length
Accepts_any_list(captions) == captions.t = "list"

\* bot.py 141: isinstance(captions, list) and len(captions) == 3
Accepts(captions) == captions.t = "list" /\ Len(captions.items) = 3

\* bot.py 119-143: the body of the try block.  status is "return" (line 142),
\* "fallthrough" (line 143) or "exception" with the exception's class.
TryAnthropic(b) ==
    IF b.kind = "conn_error" THEN [status |-> "exception", exc |-> "ConnectionError", captions |-> <<>>]
    ELSE IF b.kind = "timeout" THEN [status |-> "exception", exc |-> "Timeout", captions |-> <<>>]
    ELSE IF b.kind = "http_error" THEN [status |-> "exception", exc |-> "HTTPError", captions |-> <<>>]
    ELSE IF b.body.t = "none" THEN [status |-> "exception", exc |-> "JSONDecodeError", captions |-> <<>>]
    ELSE IF b.body.t # "dict" THEN [status |-> "exception", exc |-> "AttributeError", captions |-> <<>>]
    ELSE LET completion == IF Has(b.body.d, "completion") THEN b.body.d["completion"]
                           ELSE Completion(FALSE, "none", PyNone)
             cleaned == Cleaned(completion)
         IN  IF ~LiteralEvalOk(cleaned) /\ ~JsonLoadsOk(cleaned)
             THEN [status |-> "exception", exc |-> "JSONDecodeError", captions |-> <<>>]
             ELSE IF Accepts(cleaned.value)
             THEN [status |-> "return", exc |-> "", captions |-> cleaned.value.items]
             ELSE [status |-> "fallthrough", exc |-> "", captions |-> <<>>]

\* line 144 as "except requests.RequestException": parse errors escape
Caught_requests(exc) == exc \in {"ConnectionError", "Timeout", "HTTPError"}

\* bot.py 144: "except Exception" catches every exception the try block raises
ExceptionClasses == {"ConnectionError", "Timeout", "HTTPError", "JSONDecodeError", "AttributeError"}
Caught(exc) == exc \in ExceptionClasses

\* bot.py 99-170.  raised: the call ends in an exception instead of a value.
generate_captions(content, platform, key, b) ==
    LET context_text == ContextText(content)
        prompt == get_system_prompt(platform) \o "\n\nContext:\n" \o context_text
        try == TryAnthropic(b)
        local == [raised |-> FALSE, captions |-> Fallback(context_text), from |-> "fallback"]
    IN  IF ~key THEN local
        ELSE IF try.status = "return" THEN [raised |-> FALSE, captions |-> try.captions, from |-> "backend"]
        ELSE IF try.status = "exception" /\ ~Caught(try.exc) THEN [raised |-> TRUE, captions |-> <<>>, from |-> "backend"]
        ELSE local

\* --------------------------------------------------------------- inputs
\* The backend's answers.  Caps(keys) is an array element with those keys.
Cap(n, keys) ==
    LET full == [hook |-> "Hook " \o n, body |-> "Body " \o n, cta |-> "Cta " \o n, hashtags |-> "#tag" \o n]
    IN  PyDict([k \in keys |-> full[k]])

CaptionKeys == {"hook", "body", "cta", "hashtags"}

Good3 == PyList(<<Cap("A", CaptionKeys), Cap("B", CaptionKeys), Cap("C", CaptionKeys)>>)
Two == PyList(<<Cap("A", CaptionKeys), Cap("B", CaptionKeys)>>)
Four == PyList(<<Cap("A", CaptionKeys), Cap("B", CaptionKeys), Cap("C", CaptionKeys), Cap("D", CaptionKeys)>>)
Ints3 == PyList(<<PyInt(1), PyInt(2), PyInt(3)>>)
NoHook3 == PyList(<<Cap("A", CaptionKeys), Cap("B", {"body", "cta", "hashtags"}), Cap("C", CaptionKeys)>>)
NoCta3 == PyList(<<Cap("A", {"hook", "body"}), Cap("B", {"hook", "body"}), Cap("C", {"hook", "body"})>>)
Tuple3 == PyTuple(<<Cap("A", CaptionKeys), Cap("B", CaptionKeys), Cap("C", CaptionKeys)>>)
OneDict == Cap("A", CaptionKeys)

Answer(kind, body) == [kind |-> kind, body |-> body]
Ok(completion) == Answer("ok", PyDict([completion |-> completion]))

NoAnswer == Answer("none", PyNone)

BackendOutcomes ==
    { Answer("conn_error", PyNone),
      Answer("timeout", PyNone),
      Answer("http_error", PyNone),
      Answer("ok", PyNone),
      Answer("ok", PyList(<<>>)),
      Answer("ok", PyDict(EmptyDict)),
      Ok(Completion(TRUE, "json", Good3)),
      Ok(Completion(FALSE, "python", Good3)),
      Ok(Completion(FALSE, "none", Good3)),
      Ok(Completion(FALSE, "both", Two)),
      Ok(Completion(TRUE, "both", Four)),
      Ok(Completion(FALSE, "both", Ints3)),
      Ok(Completion(FALSE, "json", NoHook3)),
      Ok(Completion(FALSE, "json", NoCta3)),
      Ok(Completion(FALSE, "python", Tuple3)),
      Ok(Completion(FALSE, "json", OneDict)) }

\* The messages the MessageHandler of main passes to handle_message
\* (filters.TEXT | filters.PHOTO | filters.VIDEO); a text starting with "/" is
\* a command no CommandHandler takes.
PhotoSizes(n) == <<[file_size |-> 1024], [file_size |-> n]>>

Messages ==
    { [text |-> "hi"],
      [text |-> "/unknown"],
      [photo |-> PhotoSizes(MAX_FILE_SIZE), bytes |-> "P1"],
      [photo |-> PhotoSizes(6 * 1024 * 1024), bytes |-> "P2"],
      [video |-> [file_size |-> MAX_FILE_SIZE, thumbnail |-> TRUE], bytes |-> "T1"],
      [video |-> [file_size |-> 1024, thumbnail |-> FALSE], caption |-> "clip"],
      [video |-> [file_size |-> MAX_FILE_SIZE + 1, thumbnail |-> TRUE], bytes |-> "T2", caption |-> "clip"] }

\* base64.b64encode(data).decode(): kept as the encoding of those bytes
B64(bytes) == [b64 |-> bytes]

ImageItem(bytes) ==
    [type |-> "image", source |-> [type |-> "base64", media_type |-> "image/jpeg", data |-> B64(bytes)]]

TextItem(text) == [type |-> "text", text |-> text]

\* The callback data of the CallbackQueryHandler
CallbackData ==
    {"select_0", "select_1", "select_2", "select_3", "select_4", "select_x",
     "edit_2", "edit_4", "regenerate", "other"}

\* context.args of /platform
PlatformArgs == {<<>>, <<"Instagram">>}

\* ------------------------------------------------------ check_rate_limit
\* check_rate_limit with "<=" for "<": a request exactly 10 seconds after the
\* last admitted one is rejected
check_rate_limit_le(data, t) ==
    IF Has(data, "last_request") /\ t - data["last_request"] <= RATE_LIMIT_SECONDS
    THEN [allowed |-> FALSE, data |-> data]
    ELSE [allowed |-> TRUE, data |-> Put(data, "last_request", t)]

\* check_rate_limit with line 96 moved above the test of line 94: a rejected
\* request restarts the window
check_rate_limit_stamp(data, t) ==
    IF Has(data, "last_request") /\ t - data["last_request"] < RATE_LIMIT_SECONDS
    THEN [allowed |-> FALSE, data |-> Put(data, "last_request", t)]
    ELSE [allowed |-> TRUE, data |-> Put(data, "last_request", t)]

\* check_rate_limit that returns True on both paths
check_rate_limit_always(data, t) == [allowed |-> TRUE, data |-> Put(data, "last_request", t)]

\* bot.py 87-97.  allowed: the value returned; data: user_data afterwards.
check_rate_limit(data, t) ==
    IF Has(data, "last_request") /\ t - data["last_request"] < RATE_LIMIT_SECONDS
    THEN [allowed |-> FALSE, data |-> data]
    ELSE [allowed |-> TRUE, data |-> Put(data, "last_request", t)]

\* ------------------------------------------------------------- replies
Reply(text) == [via |-> "reply_text", text |-> text, keyboard |-> <<>>]
ReplyMarkup(text, keyboard) == [via |-> "reply_text", text |-> text, keyboard |-> keyboard]
EditText(text) == [via |-> "edit_message_text", text |-> text, keyboard |-> <<>>]

RateLimitText == "Rate limit exceeded. Please wait 10 seconds."
ImageTooLargeText == "Image too large (max 5MB). Please resize and try again."
VideoTooLargeText == "Video too large (max 5MB). Please shorten and try again."
EmptyText == "Please send text, an image, or a video."
GeneratingText == "Generating captions..."
RegeneratingText == "Regenerating captions..."
NoPreviousText == "No previous input found. Send text, image, or video first."
NoCaptionsText == "No captions available. Send something to generate captions first."
InvalidSelectionText == "Invalid selection."
EditPromptText == "Reply to this message with your edited caption."
UsageText == "Usage: /platform <name> (e.g., /platform instagram)"
ErrorText(e) == "Error: " \o e

\* ------------------------------------------------------------ rendering
\* c['hook'], c['body'] of bot.py 230 / 263 / 291: "" when both succeed, else
\* str(e) of the exception raised.
SubscriptError(c) ==
    IF c.t # "dict" THEN "'" \o c.t \o "' object is not subscriptable"
    ELSE IF ~Has(c.d, "hook") THEN "'hook'"
    ELSE IF ~Has(c.d, "body") THEN "'body'"
    ELSE ""

\* c.get(k, '')
GetOr(c, k) == IF Has(c.d, k) THEN c.d[k] ELSE ""

\* the four lines of a caption, bot.py 230 / 263 / 291
CaptionText(c) ==
    c.d["hook"] \o "\n\n" \o c.d["body"] \o "\n" \o GetOr(c, "cta") \o "\n" \o GetOr(c, "hashtags")

Button(text, data) == [text |-> text, callback_data |-> data]

RECURSIVE RenderFrom(_, _, _, _)
\* the loop of bot.py 229-232 from option i on; out and keyboard so far
RenderFrom(captions, i, out, keyboard) ==
    IF i > Len(captions) THEN [exc |-> "", out |-> out, keyboard |-> keyboard]
    ELSE IF SubscriptError(captions[i]) # "" THEN [exc |-> SubscriptError(captions[i]), out |-> out, keyboard |-> keyboard]
    ELSE RenderFrom(captions, i + 1,
                    out \o "Option " \o ToString(i) \o "\n" \o CaptionText(captions[i]) \o "\n\n",
                    Append(keyboard, <<Button("Select " \o ToString(i), "select_" \o ToString(i)),
                                       Button("Edit " \o ToString(i), "edit_" \o ToString(i))>>))

\* bot.py 227-234 and 260-267
Render(captions, platform) ==
    LET r == RenderFrom(captions, 1, "Platform: " \o Capitalize(platform) \o "\n\n", <<>>)
    IN  IF r.exc # "" THEN r
        ELSE [r EXCEPT !.keyboard = Append(r.keyboard, <<Button("Regenerate All", "regenerate")>>)]

\* ------------------------------------------------------------- the state
Event(op, msg, data, outcome) == [op |-> op, msg |-> msg, data |-> data, outcome |-> outcome]

NoResult == [raised |-> FALSE, captions |-> <<>>, from |-> ""]

NoGen == [called |-> FALSE, content |-> <<>>, platform |-> "", backend |-> NoAnswer, result |-> NoResult]

Call(content, platform, b, result) ==
    [called |-> TRUE, content |-> content, platform |-> platform, backend |-> b, result |-> result]

\* The answers the handlers are run against: a timeout, a well-formed array,
\* an array of two, and an array of three whose second element has no hook.
\* The backend is asked only when the key is set.
HandlerAnswers ==
    { Answer("timeout", PyNone),
      Ok(Completion(TRUE, "json", Good3)),
      Ok(Completion(FALSE, "both", Two)),
      Ok(Completion(FALSE, "json", NoHook3)) }

Backends == IF api_key THEN HandlerAnswers ELSE {NoAnswer}

\* The instants at which events arrive: around 0 and around the end of the
\* rate-limit window that starts at 0 or 1.
Times == {t \in 0..MaxTime : t <= 1 \/ t >= RATE_LIMIT_SECONDS - 1}

\* The coroutines of the handlers.  pc is the await at which the coroutine
\* is suspended ("at222": the reply_text of line 222), "in_post" inside the
\* blocking requests.post of line 119, "idle" or "done" when there is none.
Slots == {"h1", "h2"}

IdleTask ==
    [pc |-> "idle", op |-> "", msg |-> EmptyDict, data |-> "", content |-> <<>>,
     platform |-> "", b |-> NoAnswer, outcome |-> ""]

NoTasks == [s \in Slots |-> IdleTask]

Init ==
    /\ api_key \in BOOLEAN
    /\ now = 0
    /\ user_data = EmptyDict
    /\ ev = Event("init", EmptyDict, "", "")
    /\ replies = <<>>
    /\ gen = NoGen
    /\ tasks = NoTasks

\* time passes between two events
Tick ==
    /\ \E t \in Times : t > now /\ now' = t
    /\ ev' = Event("tick", EmptyDict, "", "")
    /\ replies' = <<>>
    /\ gen' = NoGen
    /\ UNCHANGED <<api_key, user_data>>

\* bot.py 79-85
set_platform(args) ==
    /\ IF Len(args) = 0
       THEN /\ replies' = <<Reply(UsageText)>>
            /\ ev' = Event("set_platform", EmptyDict, "", "usage")
            /\ UNCHANGED user_data
       ELSE LET platform == Lower(JoinSpace(args))
            IN  /\ user_data' = Put(user_data, "platform", platform)
                /\ replies' = <<Reply("Platform set to: " \o Capitalize(platform))>>
                /\ ev' = Event("set_platform", EmptyDict, "", "platform_set")
    /\ gen' = NoGen
    /\ UNCHANGED <<api_key, now>>

\* lines 188 and 201 against a limit of 10MB
TooLarge_10mb(file_size) == file_size > 10 * 1024 * 1024

\* bot.py 188 and 201
TooLarge(file_size) == file_size > MAX_FILE_SIZE

\* Normalize without the startswith("/") test of line 182: a command no
\* handler takes is text content
Normalize_commands(msg) ==
    IF Has(msg, "text") /\ Len(msg["text"]) > 0
    THEN [too_large |-> "", content |-> <<TextItem("Context: " \o msg["text"])>>]
    ELSE IF Has(msg, "photo") /\ Len(msg["photo"]) > 0
    THEN IF TooLarge(msg["photo"][Len(msg["photo"])].file_size)
         THEN [too_large |-> ImageTooLargeText, content |-> <<>>]
         ELSE [too_large |-> "", content |-> <<ImageItem(msg["bytes"])>>]
    ELSE IF Has(msg, "video")
    THEN IF TooLarge(msg["video"].file_size)
         THEN [too_large |-> VideoTooLargeText, content |-> <<>>]
         ELSE LET caption == IF Has(msg, "caption") /\ Len(msg["caption"]) > 0 THEN msg["caption"] ELSE "No caption"
                  thumb == IF msg["video"].thumbnail THEN <<ImageItem(msg["bytes"])>> ELSE <<>>
              IN  [too_large |-> "", content |-> thumb \o <<TextItem("Context: Video description - " \o caption)>>]
    ELSE [too_large |-> "", content |-> <<>>]

\* bot.py 181-213: the content items of a message.  too_large: the reply of
\* line 189 / 202 when the handler returns there, else "".
Normalize(msg) ==
    IF Has(msg, "text") /\ Len(msg["text"]) > 0 /\ ~StartsWith(msg["text"], "/")
    THEN [too_large |-> "", content |-> <<TextItem("Context: " \o msg["text"])>>]
    ELSE IF Has(msg, "photo") /\ Len(msg["photo"]) > 0
    THEN IF TooLarge(msg["photo"][Len(msg["photo"])].file_size)
         THEN [too_large |-> ImageTooLargeText, content |-> <<>>]
         ELSE [too_large |-> "", content |-> <<ImageItem(msg["bytes"])>>]
    ELSE IF Has(msg, "video")
    THEN IF TooLarge(msg["video"].file_size)
         THEN [too_large |-> VideoTooLargeText, content |-> <<>>]
         ELSE LET caption == IF Has(msg, "caption") /\ Len(msg["caption"]) > 0 THEN msg["caption"] ELSE "No caption"
                  thumb == IF msg["video"].thumbnail THEN <<ImageItem(msg["bytes"])>> ELSE <<>>
              IN  [too_large |-> "", content |-> thumb \o <<TextItem("Context: Video description - " \o caption)>>]
    ELSE [too_large |-> "", content |-> <<>>]

\* bot.py 223-237 and 257-273: the try block and its handler.  data is
\* user_data when the block is entered, g the result of generate_captions,
\* send_ok whether the reply_text of line 235 / 269 returns.
\* Gives user_data afterwards, the replies sent and the outcome.
GenerateAndShow(data, g, platform, send_ok) ==
    IF g.raised
    THEN [data |-> data, replies |-> <<Reply(ErrorText("generation failed"))>>, outcome |-> "error"]
    ELSE LET stored == Put(data, "last_captions", g.captions)
             r == Render(g.captions, platform)
         IN  IF r.exc # ""
             THEN [data |-> stored, replies |-> <<Reply(ErrorText(r.exc))>>, outcome |-> "error"]
             ELSE IF ~send_ok
             THEN [data |-> stored, replies |-> <<Reply(ErrorText("Message is too long"))>>, outcome |-> "error"]
             ELSE [data |-> stored, replies |-> <<ReplyMarkup(r.out, r.keyboard)>>, outcome |-> "rendered"]

\* handle_message without the test of lines 215-217
handle_message_no_empty_test(msg, b, send_ok) ==
    LET rl == check_rate_limit(user_data, now)
        platform == IF Has(user_data, "platform") THEN user_data["platform"] ELSE "default"
        n == Normalize(msg)
    IN  /\ IF ~rl.allowed
           THEN /\ user_data' = rl.data
                /\ replies' = <<Reply(RateLimitText)>>
                /\ ev' = Event("handle_message", msg, "", "rate_limited")
                /\ gen' = NoGen
           ELSE IF n.too_large # ""
           THEN /\ user_data' = rl.data
                /\ replies' = <<Reply(n.too_large)>>
                /\ ev' = Event("handle_message", msg, "", "too_large")
                /\ gen' = NoGen
           ELSE LET stored == Put(rl.data, "last_content", n.content)
                    g == generate_captions(n.content, platform, api_key, b)
                    s == GenerateAndShow(stored, g, platform, send_ok)
                IN  /\ user_data' = s.data
                    /\ replies' = <<Reply(GeneratingText)>> \o s.replies
                    /\ ev' = Event("handle_message", msg, "", s.outcome)
                    /\ gen' = Call(n.content, platform, b, g)
        /\ UNCHANGED <<api_key, now>>

\* bot.py 172-237
handle_message(msg, b, send_ok) ==
    LET rl == check_rate_limit(user_data, now)
        platform == IF Has(user_data, "platform") THEN user_data["platform"] ELSE "default"
        n == Normalize(msg)
    IN  /\ IF ~rl.allowed
           THEN /\ user_data' = rl.data
                /\ replies' = <<Reply(RateLimitText)>>
                /\ ev' = Event("handle_message", msg, "", "rate_limited")
                /\ gen' = NoGen
           ELSE IF n.too_large # ""
           THEN /\ user_data' = rl.data
                /\ replies' = <<Reply(n.too_large)>>
                /\ ev' = Event("handle_message", msg, "", "too_large")
                /\ gen' = NoGen
           ELSE IF Len(n.content) = 0
           THEN /\ user_data' = rl.data
                /\ replies' = <<Reply(EmptyText)>>
                /\ ev' = Event("handle_message", msg, "", "empty")
                /\ gen' = NoGen
           ELSE LET stored == Put(rl.data, "last_content", n.content)
                    g == generate_captions(n.content, platform, api_key, b)
                    s == GenerateAndShow(stored, g, platform, send_ok)
                IN  /\ user_data' = s.data
                    /\ replies' = <<Reply(GeneratingText)>> \o s.replies
                    /\ ev' = Event("handle_message", msg, "", s.outcome)
                    /\ gen' = Call(n.content, platform, b, g)
        /\ UNCHANGED <<api_key, now>>

\* bot.py 246-247: not last_content
NoLastContent(data) == ~Has(data, "last_content") \/ Len(data["last_content"]) = 0

\* bot.py 239-273; data is the callback data when the call comes from
\* handle_callback (line 299), "" for the /regenerate command
regenerate(data, b, send_ok) ==
    LET rl == check_rate_limit(user_data, now)
        platform == IF Has(user_data, "platform") THEN user_data["platform"] ELSE "default"
    IN  /\ IF ~rl.allowed
           THEN /\ user_data' = rl.data
                /\ replies' = <<Reply(RateLimitText)>>
                /\ ev' = Event("regenerate", EmptyDict, data, "rate_limited")
                /\ gen' = NoGen
           ELSE IF NoLastContent(rl.data)
           THEN /\ user_data' = rl.data
                /\ replies' = <<Reply(NoPreviousText)>>
                /\ ev' = Event("regenerate", EmptyDict, data, "no_previous")
                /\ gen' = NoGen
           ELSE LET last_content == rl.data["last_content"]
                    g == generate_captions(last_content, platform, api_key, b)
                    s == GenerateAndShow(rl.data, g, platform, send_ok)
                IN  /\ user_data' = s.data
                    /\ replies' = <<Reply(RegeneratingText)>> \o s.replies
                    /\ ev' = Event("regenerate", EmptyDict, data, s.outcome)
                    /\ gen' = Call(last_content, platform, b, g)
        /\ UNCHANGED <<api_key, now>>

\* bot.py 281-292
select(data) ==
    LET arg == Split(data, "_")[2]
    IN  /\ IF ~Has(user_data, "last_captions") \/ Len(user_data["last_captions"]) = 0
           THEN /\ replies' = <<EditText(NoCaptionsText)>>
                /\ ev' = Event("handle_callback", EmptyDict, data, "no_captions")
           ELSE IF ~IsInt(arg)
           THEN /\ replies' = <<>>
                /\ ev' = Event("handle_callback", EmptyDict, data, "exception")
           ELSE LET captions == user_data["last_captions"]
                    idx == IntOf(arg) - 1
                IN  IF idx < 0 \/ idx >= Len(captions)
                    THEN /\ replies' = <<EditText(InvalidSelectionText)>>
                         /\ ev' = Event("handle_callback", EmptyDict, data, "invalid_selection")
                    ELSE IF SubscriptError(captions[idx + 1]) # ""
                    THEN /\ replies' = <<>>
                         /\ ev' = Event("handle_callback", EmptyDict, data, "exception")
                    ELSE /\ replies' = <<EditText("Selected Caption:\n" \o CaptionText(captions[idx + 1]))>>
                         /\ ev' = Event("handle_callback", EmptyDict, data, "selected")
        /\ gen' = NoGen
        /\ UNCHANGED <<api_key, now, user_data>>

\* bot.py 293-297
edit(data) ==
    LET arg == Split(data, "_")[2]
    IN  /\ IF ~IsInt(arg)
           THEN /\ replies' = <<>>
                /\ ev' = Event("handle_callback", EmptyDict, data, "exception")
                /\ UNCHANGED user_data
           ELSE /\ replies' = <<EditText(EditPromptText)>>
                /\ user_data' = Put(user_data, "editing", IntOf(arg) - 1)
                /\ ev' = Event("handle_callback", EmptyDict, data, "edit_prompt")
        /\ gen' = NoGen
        /\ UNCHANGED <<api_key, now>>

\* handle_callback with line 298 comparing against "regenerate_all"
handle_callback_other_token(data, b, send_ok) ==
    IF StartsWith(data, "select_") THEN select(data)
    ELSE IF StartsWith(data, "edit_") THEN edit(data)
    ELSE IF data = "regenerate_all" THEN regenerate(data, b, send_ok)
    ELSE /\ replies' = <<>>
         /\ ev' = Event("handle_callback", EmptyDict, data, "ignored")
         /\ gen' = NoGen
         /\ UNCHANGED <<api_key, now, user_data>>

\* bot.py 275-299
handle_callback(data, b, send_ok) ==
    IF StartsWith(data, "select_") THEN select(data)
    ELSE IF StartsWith(data, "edit_") THEN edit(data)
    ELSE IF data = "regenerate" THEN regenerate(data, b, send_ok)
    ELSE /\ replies' = <<>>
         /\ ev' = Event("handle_callback", EmptyDict, data, "ignored")
         /\ gen' = NoGen
         /\ UNCHANGED <<api_key, now, user_data>>

\* The backend's answer and the outcome of the last reply_text are inputs of
\* a handler only when it reaches its try block (bot.py 223, 257).
MessageGenerates(msg) ==
    /\ check_rate_limit(user_data, now).allowed
    /\ Normalize(msg).too_large = ""
    /\ Len(Normalize(msg).content) > 0

RegenerateGenerates ==
    /\ check_rate_limit(user_data, now).allowed
    /\ ~NoLastContent(user_data)

Next ==
    \/ Tick /\ UNCHANGED tasks
    \/ \E args \in PlatformArgs : set_platform(args) /\ UNCHANGED tasks
    \/ \E msg \in Messages :
          IF MessageGenerates(msg)
          THEN \E b \in Backends, send_ok \in BOOLEAN : handle_message(msg, b, send_ok) /\ UNCHANGED tasks
          ELSE handle_message(msg, NoAnswer, TRUE) /\ UNCHANGED tasks
    \/ IF RegenerateGenerates
       THEN \E b \in Backends, send_ok \in BOOLEAN : regenerate("", b, send_ok) /\ UNCHANGED tasks
       ELSE regenerate("", NoAnswer, TRUE) /\ UNCHANGED tasks
    \/ \E data \in CallbackData \ {"regenerate"} : handle_callback(data, NoAnswer, TRUE) /\ UNCHANGED tasks
    \/ IF RegenerateGenerates
       THEN \E b \in Backends, send_ok \in BOOLEAN : handle_callback("regenerate", b, send_ok) /\ UNCHANGED tasks
       ELSE handle_callback("regenerate", NoAnswer, TRUE) /\ UNCHANGED tasks

Spec == Init /\ [][Next]_vars

\* ------------------------------------------- generate_captions on its own
\* The generator applied to content sequences a handler cannot build as well
\* (no item, an empty text, a text longer than the hook's 60 characters) and
\* to every answer of the backend.
LongText == "Context: " \o "0123456789012345678901234567890123456789012345678901234567890123456789"

GenContents ==
    { <<>>,
      <<TextItem("")>>,
      <<TextItem("Context: hi")>>,
      <<ImageItem("P1")>>,
      <<ImageItem("T1"), TextItem("Context: Video description - clip")>>,
      <<TextItem(LongText)>> }

GenPlatforms == {"default", "instagram", "TikTok"}

InitGen ==
    /\ api_key \in BOOLEAN
    /\ now = 0
    /\ user_data = EmptyDict
    /\ ev = Event("init", EmptyDict, "", "")
    /\ replies = <<>>
    /\ gen \in {[called |-> FALSE, content |-> c, platform |-> p, backend |-> b, result |-> NoResult] :
                   c \in GenContents, p \in GenPlatforms, b \in BackendOutcomes}
    /\ tasks = NoTasks

GenerateCall ==
    /\ ~gen.called
    /\ gen' = Call(gen.content, gen.platform, gen.backend,
                   generate_captions(gen.content, gen.platform, api_key, gen.backend))
    /\ UNCHANGED <<api_key, now, user_data, ev, replies, tasks>>

NextGen == GenerateCall

SpecGen == InitGen /\ [][NextGen]_vars

\* --------------------------------------- the handlers cut at their awaits
\* Two updates of one user handled concurrently.  A coroutine runs from one
\* await to the next without interruption; requests.post (line 119) is not an
\* await, so while one coroutine is inside it no other coroutine runs.
ConcMessages ==
    { [text |-> "hi"],
      [text |-> "/unknown"],
      [photo |-> PhotoSizes(MAX_FILE_SIZE), bytes |-> "P1"],
      [photo |-> PhotoSizes(6 * 1024 * 1024), bytes |-> "P2"],
      [video |-> [file_size |-> MAX_FILE_SIZE, thumbnail |-> TRUE], bytes |-> "T1"] }

\* line 131 without timeout=30: a backend that stays silent never returns
Returns_no_timeout(b) == b.kind # "timeout"

\* bot.py 131: with timeout=30 every request returns or raises
Returns(b) == TRUE

Free(s) == tasks[s].pc \in {"idle", "done"}

\* no coroutine holds the event loop inside requests.post
LoopRuns == \A s \in Slots : tasks[s].pc # "in_post"

Task(pc, op, msg, data, content, platform, b, outcome) ==
    [pc |-> pc, op |-> op, msg |-> msg, data |-> data, content |-> content,
     platform |-> platform, b |-> b, outcome |-> outcome]

Done(op, msg, data, outcome) == Task("done", op, msg, data, <<>>, "", NoAnswer, outcome)

\* a step of coroutine s that runs no generation: the task and the session
\* afterwards and the replies sent
Step(s, task, data, sent) ==
    /\ tasks' = [tasks EXCEPT ![s] = task]
    /\ user_data' = data
    /\ replies' = sent
    /\ ev' = Event(task.op, task.msg, task.data, IF task.pc = "done" THEN task.outcome ELSE task.pc)
    /\ UNCHANGED <<api_key, now, gen>>

\* bot.py 219-222: store the content and announce the generation
StoreContent(s, content) ==
    Step(s, [tasks[s] EXCEPT !.pc = "at222", !.content = content],
         Put(user_data, "last_content", content), <<Reply(GeneratingText)>>)

\* bot.py 172-187 / 200 / 222: handle_message up to its first await
StartMessage(s, msg) ==
    LET rl == check_rate_limit(user_data, now)
        platform == IF Has(user_data, "platform") THEN user_data["platform"] ELSE "default"
        started(pc) == Task(pc, "handle_message", msg, "", <<>>, platform, NoAnswer, "")
    IN  /\ Free(s)
        /\ LoopRuns
        /\ IF ~rl.allowed
           THEN Step(s, Done("handle_message", msg, "", "rate_limited"), rl.data, <<Reply(RateLimitText)>>)
           ELSE IF Has(msg, "text") /\ Len(msg["text"]) > 0 /\ ~StartsWith(msg["text"], "/")
           THEN LET content == <<TextItem("Context: " \o msg["text"])>>
                IN  Step(s, [started("at222") EXCEPT !.content = content],
                         Put(rl.data, "last_content", content), <<Reply(GeneratingText)>>)
           ELSE IF Has(msg, "photo") /\ Len(msg["photo"]) > 0
           THEN Step(s, started("at187"), rl.data, <<>>)
           ELSE IF Has(msg, "video")
           THEN Step(s, started("at200"), rl.data, <<>>)
           ELSE Step(s, Done("handle_message", msg, "", "empty"), rl.data, <<Reply(EmptyText)>>)

\* bot.py 188-191: after get_file of the photo
Resume187(s) ==
    LET msg == tasks[s].msg
    IN  /\ tasks[s].pc = "at187"
        /\ LoopRuns
        /\ IF TooLarge(msg["photo"][Len(msg["photo"])].file_size)
           THEN Step(s, Done("handle_message", msg, "", "too_large"), user_data, <<Reply(ImageTooLargeText)>>)
           ELSE Step(s, [tasks[s] EXCEPT !.pc = "at191"], user_data, <<>>)

\* bot.py 192-222: after the download of the photo
Resume191(s) ==
    /\ tasks[s].pc = "at191"
    /\ LoopRuns
    /\ StoreContent(s, <<ImageItem(tasks[s].msg["bytes"])>>)

\* the text item of a video, bot.py 213
VideoText(msg) ==
    TextItem("Context: Video description - "
             \o (IF Has(msg, "caption") /\ Len(msg["caption"]) > 0 THEN msg["caption"] ELSE "No caption"))

\* bot.py 201-206 and 213-222: after get_file of the video
Resume200(s) ==
    LET msg == tasks[s].msg
    IN  /\ tasks[s].pc = "at200"
        /\ LoopRuns
        /\ IF TooLarge(msg["video"].file_size)
           THEN Step(s, Done("handle_message", msg, "", "too_large"), user_data, <<Reply(VideoTooLargeText)>>)
           ELSE IF msg["video"].thumbnail
           THEN Step(s, [tasks[s] EXCEPT !.pc = "at206"], user_data, <<>>)
           ELSE StoreContent(s, <<VideoText(msg)>>)

\* bot.py 207: after get_file of the thumbnail
Resume206(s) ==
    /\ tasks[s].pc = "at206"
    /\ LoopRuns
    /\ Step(s, [tasks[s] EXCEPT !.pc = "at207"], user_data, <<>>)

\* bot.py 208-222: after the download of the thumbnail
Resume207(s) ==
    /\ tasks[s].pc = "at207"
    /\ LoopRuns
    /\ StoreContent(s, <<ImageItem(tasks[s].msg["bytes"]), VideoText(tasks[s].msg)>>)

\* bot.py 239-256: regenerate up to the reply_text of line 256
StartRegenerate(s, data) ==
    LET rl == check_rate_limit(user_data, now)
        platform == IF Has(user_data, "platform") THEN user_data["platform"] ELSE "default"
    IN  /\ Free(s)
        /\ LoopRuns
        /\ IF ~rl.allowed
           THEN Step(s, Done("regenerate", EmptyDict, data, "rate_limited"), rl.data, <<Reply(RateLimitText)>>)
           ELSE IF NoLastContent(rl.data)
           THEN Step(s, Done("regenerate", EmptyDict, data, "no_previous"), rl.data, <<Reply(NoPreviousText)>>)
           ELSE Step(s, Task("at256", "regenerate", EmptyDict, data, rl.data["last_content"], platform, NoAnswer, ""),
                     rl.data, <<Reply(RegeneratingText)>>)

\* bot.py 224-237 / 258-273 from the return of generate_captions on: the
\* captions are stored in the session as it is now and shown
Finish(s, b, send_ok) ==
    \E g \in {generate_captions(tasks[s].content, tasks[s].platform, api_key, b)} :
        \E sh \in {GenerateAndShow(user_data, g, tasks[s].platform, send_ok)} :
            /\ tasks' = [tasks EXCEPT ![s] = [@ EXCEPT !.pc = "done", !.b = b, !.outcome = sh.outcome]]
            /\ user_data' = sh.data
            /\ replies' = sh.replies
            /\ ev' = Event(tasks[s].op, tasks[s].msg, tasks[s].data, sh.outcome)
            /\ gen' = Call(tasks[s].content, tasks[s].platform, b, g)
            /\ UNCHANGED <<api_key, now>>

\* bot.py 116-119: resumed after line 222 / 256 with a key, the coroutine
\* enters requests.post; b is what the backend will do
CallBackend(s, b) ==
    /\ api_key
    /\ tasks[s].pc \in {"at222", "at256"}
    /\ LoopRuns
    /\ tasks' = [tasks EXCEPT ![s] = [tasks[s] EXCEPT !.pc = "in_post", !.b = b]]
    /\ ev' = Event(tasks[s].op, tasks[s].msg, tasks[s].data, "in_post")
    /\ replies' = <<>>
    /\ UNCHANGED <<api_key, now, user_data, gen>>

\* bot.py 119-145: requests.post returns or raises
BackendReturn(s, send_ok) ==
    /\ tasks[s].pc = "in_post"
    /\ Returns(tasks[s].b)
    /\ Finish(s, tasks[s].b, send_ok)

\* bot.py 147-170: resumed after line 222 / 256 without a key
GenerateLocal(s, send_ok) ==
    /\ ~api_key
    /\ tasks[s].pc \in {"at222", "at256"}
    /\ LoopRuns
    /\ Finish(s, NoAnswer, send_ok)

\* time passes, also while a coroutine is suspended or inside requests.post
TickConc ==
    /\ \E t \in Times : t > now /\ now' = t
    /\ ev' = Event("tick", EmptyDict, "", "")
    /\ replies' = <<>>
    /\ UNCHANGED <<api_key, user_data, gen, tasks>>

\* the step BackendReturn or GenerateLocal of coroutine s, as tasks shows it
Ends(s) ==
    /\ \/ tasks[s].pc = "in_post" /\ Returns(tasks[s].b)
       \/ tasks[s].pc \in {"at222", "at256"} /\ ~api_key /\ LoopRuns
    /\ \E outcome \in {"rendered", "error"} :
          tasks' = [tasks EXCEPT ![s] = [@ EXCEPT !.pc = "done", !.outcome = outcome]]

\* the steps the event loop and the backend owe coroutine s
Resume(s) ==
    \/ Resume187(s)
    \/ Resume191(s)
    \/ Resume200(s)
    \/ Resume206(s)
    \/ Resume207(s)
    \/ \E b \in HandlerAnswers : CallBackend(s, b)
    \/ Ends(s)

NextConc ==
    \/ TickConc
    \/ \E s \in Slots, msg \in ConcMessages : StartMessage(s, msg)
    \/ \E s \in Slots, data \in {"", "regenerate"} : StartRegenerate(s, data)
    \/ \E s \in Slots : Resume187(s)
    \/ \E s \in Slots : Resume191(s)
    \/ \E s \in Slots : Resume200(s)
    \/ \E s \in Slots : Resume206(s)
    \/ \E s \in Slots : Resume207(s)
    \/ \E s \in Slots, b \in HandlerAnswers : CallBackend(s, b)
    \/ \E s \in Slots, send_ok \in BOOLEAN : BackendReturn(s, send_ok)
    \/ \E s \in Slots, send_ok \in BOOLEAN : GenerateLocal(s, send_ok)

\* The event loop resumes a coroutine whose await has completed, and a
\* request to the backend ends within its timeout: each coroutine's steps
\* are weakly fair.  Every such step changes tasks, so the fairness is
\* stated on tasks.
SpecConc == Init /\ [][NextConc]_vars /\ \A s \in Slots : WF_tasks(Resume(s))


\* ================================================================ claims
RateLimitedOps == {"handle_message", "regenerate"}

\* key k is absent from both dicts or holds the same value in both
Same(d1, d2, k) == (Has(d1, k) <=> Has(d2, k)) /\ (Has(d1, k) => d1[k] = d2[k])

\* C1: a submission or regenerate is admitted iff last_request is absent or at
\* least 10 seconds old; an admitted request sets last_request to the current
\* time, a rejected one gets the rate-limit notice and changes nothing.
C1_RateLimit ==
    [][ev'.op \in RateLimitedOps =>
        LET fresh == ~Has(user_data, "last_request") \/ now - user_data["last_request"] >= 10
            admitted == ev'.outcome # "rate_limited"
        IN  /\ admitted <=> fresh
            /\ admitted => Has(user_data', "last_request") /\ user_data'["last_request"] = now
            /\ ~admitted => user_data' = user_data /\ replies' = <<Reply(RateLimitText)>>]_vars

\* C1 witness: a submission 9 seconds after the admitted one has been rejected
C1_Witness ==
    /\ ev.op = "handle_message"
    /\ ev.outcome = "rate_limited"
    /\ Has(user_data, "last_request")
    /\ now - user_data["last_request"] = 9

\* C2: generate_captions never raises and returns exactly 3 elements, for
\* every content sequence, platform and answer of the backend, with or
\* without a key.
C2_AlwaysThree ==
    gen.called => ~gen.result.raised /\ Len(gen.result.captions) = 3

\* C2 witness: the key is set, the body of the answer was not JSON, and the
\* call has returned
C2_Witness ==
    /\ gen.called
    /\ api_key
    /\ gen.backend = Answer("ok", PyNone)
    /\ Len(gen.result.captions) = 3

\* the answer is a 2xx response whose completion is a JSON array of 3 elements
WellFormed3(b) ==
    /\ b.kind = "ok"
    /\ b.body.t = "dict"
    /\ Has(b.body.d, "completion")
    /\ b.body.d["completion"].syntax \in {"json", "both"}
    /\ b.body.d["completion"].value.t = "list"
    /\ Len(b.body.d["completion"].value.items) = 3

\* the answer is a timeout, text no parser accepts, or an array of 2 elements
Unusable(b) ==
    \/ b.kind = "timeout"
    \/ /\ b.kind = "ok"
       /\ b.body.t = "dict"
       /\ Has(b.body.d, "completion")
       /\ \/ b.body.d["completion"].syntax = "none"
          \/ /\ b.body.d["completion"].value.t = "list"
             /\ Len(b.body.d["completion"].value.items) = 2

FixedCtas == <<"Learn more", "Save this", "Share your thoughts">>
FixedHashtags == <<"#viral", "#tips", "#content">>

\* the captions are those of the local generator: three dicts with the fixed
\* calls to action and hashtags, in order
IsLocal(captions) ==
    /\ Len(captions) = 3
    /\ \A i \in 1..3 :
          /\ captions[i].t = "dict"
          /\ DOMAIN captions[i].d = CaptionKeys
          /\ captions[i].d["cta"] = FixedCtas[i]
          /\ captions[i].d["hashtags"] = FixedHashtags[i]

\* C3: with a key, a well-formed 3-element array is returned as it is, in
\* order; after a 2-element array, malformed text or a timeout the result is
\* the local generator's.
C3_BackendOrFallback ==
    gen.called /\ api_key =>
        /\ WellFormed3(gen.backend) =>
              gen.result.captions = gen.backend.body.d["completion"].value.items
        /\ Unusable(gen.backend) => IsLocal(gen.result.captions)

\* C3 witness: a fenced well-formed array has been returned unchanged
C3_Witness ==
    /\ gen.called
    /\ api_key
    /\ gen.backend = Ok(Completion(TRUE, "json", Good3))
    /\ gen.result.captions = Good3.items

\* the argument of a select_<i> / edit_<i> token
TokenArg(data) == Split(data, "_")[2]

\* the reply that shows caption c as the selected one
SelectedReply(c) ==
    EditText("Selected Caption:\n" \o c.d["hook"] \o "\n\n" \o c.d["body"] \o "\n"
             \o GetOr(c, "cta") \o "\n" \o GetOr(c, "hashtags"))

\* C4 (as claimed): Select i replies with the no-captions error when
\* last_captions is absent, with the invalid-selection error when i is not in
\* 1..3, and otherwise shows the caption stored at position i; the session is
\* unchanged in all three cases.
C4_Select ==
    [][ev'.op = "handle_callback" /\ StartsWith(ev'.data, "select_") /\ IsInt(TokenArg(ev'.data)) =>
        LET i == IntOf(TokenArg(ev'.data))
        IN  /\ user_data' = user_data
            /\ IF ~Has(user_data, "last_captions")
               THEN replies' = <<EditText(NoCaptionsText)>>
               ELSE IF i \notin 1..3
               THEN replies' = <<EditText(InvalidSelectionText)>>
               ELSE /\ ev'.outcome = "selected"
                    /\ SubscriptError(user_data["last_captions"][i]) = ""
                          => replies' = <<SelectedReply(user_data["last_captions"][i])>>]_vars

\* the rate limiter admits a request made now
Fresh == ~Has(user_data, "last_request") \/ now - user_data["last_request"] >= RATE_LIMIT_SECONDS

\* C5 (as claimed): a Regenerate with no last_content gets the 'no previous
\* input' error and leaves every field of the session as it was.
C5_Original ==
    [][ev'.op = "regenerate" /\ ~Has(user_data, "last_content") =>
        /\ replies' = <<Reply(NoPreviousText)>>
        /\ user_data' = user_data]_vars

\* C5 (amended): a Regenerate with no last_content that the rate limiter
\* admits gets the 'no previous input' error and changes last_request only,
\* to the current time; one the rate limiter rejects gets the rate-limit
\* notice and changes nothing.  No generation runs in either case.
C5_NoPriorInput ==
    [][ev'.op = "regenerate" /\ ~Has(user_data, "last_content") =>
        /\ ~gen'.called
        /\ IF Fresh
           THEN /\ replies' = <<Reply(NoPreviousText)>>
                /\ DOMAIN user_data' = DOMAIN user_data \cup {"last_request"}
                /\ user_data'["last_request"] = now
                /\ \A k \in DOMAIN user_data \ {"last_request"} : user_data'[k] = user_data[k]
           ELSE /\ replies' = <<Reply(RateLimitText)>>
                /\ user_data' = user_data]_vars

\* C5 witness: the quick-action arrived with no last_content stored, was
\* admitted and answered with the 'no previous input' error
C5_Witness ==
    /\ ev.op = "regenerate"
    /\ ev.data = "regenerate"
    /\ ev.outcome = "no_previous"
    /\ ~Has(user_data, "last_content")
    /\ user_data["last_request"] = now

\* the payload of the message exceeds 5MB
Oversize(msg) ==
    \/ Has(msg, "photo") /\ msg["photo"][Len(msg["photo"])].file_size > 5 * 1024 * 1024
    \/ Has(msg, "video") /\ msg["video"].file_size > 5 * 1024 * 1024

SizeErrorText(msg) == IF Has(msg, "photo") THEN ImageTooLargeText ELSE VideoTooLargeText

\* C6 (as claimed): an oversized submission gets the size error, runs no
\* generation and leaves last_content and last_captions as they were.
C6_Original ==
    [][ev'.op = "handle_message" /\ Oversize(ev'.msg) =>
        /\ replies' = <<Reply(SizeErrorText(ev'.msg))>>
        /\ ~gen'.called
        /\ Same(user_data', user_data, "last_content")
        /\ Same(user_data', user_data, "last_captions")]_vars

\* C6 (amended): an oversized submission that the rate limiter admits gets
\* the size error, one it rejects gets the rate-limit notice; in both cases no
\* generation runs and last_content and last_captions stay as they were.
C6_Oversized ==
    [][ev'.op = "handle_message" /\ Oversize(ev'.msg) =>
        /\ replies' = <<Reply(IF Fresh THEN SizeErrorText(ev'.msg) ELSE RateLimitText)>>
        /\ ~gen'.called
        /\ Same(user_data', user_data, "last_content")
        /\ Same(user_data', user_data, "last_captions")]_vars

\* C6 witness: an oversized video was answered with the size error while an
\* earlier submission's content and captions are stored
C6_Witness ==
    /\ ev.op = "handle_message"
    /\ Has(ev.msg, "video")
    /\ Oversize(ev.msg)
    /\ replies = <<Reply(VideoTooLargeText)>>
    /\ Has(user_data, "last_content")
    /\ Has(user_data, "last_captions")

\* C7: last_captions is absent or a list of exactly 3 elements.
C7_ThreeCaptions ==
    Has(user_data, "last_captions") => Len(user_data["last_captions"]) = 3

\* C7 witness: the backend answered with an array of 2 and captions are stored
C7_Witness ==
    /\ gen.called
    /\ gen.backend = Ok(Completion(FALSE, "both", Two))
    /\ Has(user_data, "last_captions")
    /\ user_data["last_captions"] = gen.result.captions

\* C8 (as claimed): once an admitted submission's generation has returned,
\* editing is absent.
C8_EditingCleared ==
    ev.op = "handle_message" /\ gen.called => ~Has(user_data, "editing")

\* C9 (as claimed): a handler that ends in its catch-all error reply leaves
\* last_content and last_captions as they were before the event.
C9_ErrorKeepsState ==
    [][ev'.op \in RateLimitedOps /\ ev'.outcome = "error" =>
        /\ Same(user_data', user_data, "last_content")
        /\ Same(user_data', user_data, "last_captions")]_vars

\* c is a Caption: a dict with exactly the keys hook, body, cta, hashtags
IsCaption(c) == c.t = "dict" /\ DOMAIN c.d = CaptionKeys

\* C10 (as claimed): what generate_captions returns, and so what last_captions
\* holds, consists of Caption records only.
C10_CaptionShaped ==
    /\ gen.called => \A i \in 1..Len(gen.result.captions) : IsCaption(gen.result.captions[i])
    /\ Has(user_data, "last_captions") =>
          \A i \in 1..Len(user_data["last_captions"]) : IsCaption(user_data["last_captions"][i])

\* the error reply sent when the transport refuses the rendered message
TransportErrorReply == Reply(ErrorText("Message is too long"))

\* C11 (as claimed): whenever a handler has run the generator and the
\* transport took the reply, the reply is the rendered list of 3 captions with
\* its quick-actions and not an "Error:" message, whatever the backend did.
C11_NoBackendError ==
    gen.called /\ replies[Len(replies)] # TransportErrorReply =>
        /\ ev.outcome = "rendered"
        /\ Len(replies[Len(replies)].keyboard) = 4
        /\ ~StartsWith(replies[Len(replies)].text, "Error:")

\* C12 (as claimed): editing is absent or one of 0, 1, 2.
C12_EditingInRange ==
    Has(user_data, "editing") => user_data["editing"] \in 0..2

\* the message yields no content item: a command no CommandHandler takes
EmptySubmission(msg) == Has(msg, "text") /\ StartsWith(msg["text"], "/")

\* C13 (as claimed): an empty submission gets the 'please send' error and
\* leaves every field of the session as it was.
C13_Original ==
    [][ev'.op = "handle_message" /\ EmptySubmission(ev'.msg) =>
        /\ replies' = <<Reply(EmptyText)>>
        /\ user_data' = user_data]_vars

\* C13 (amended): an empty submission that the rate limiter admits gets the
\* 'please send' error and changes last_request only, to the current time; one
\* the rate limiter rejects gets the rate-limit notice and changes nothing.
\* No generation runs in either case.
C13_EmptySubmission ==
    [][ev'.op = "handle_message" /\ EmptySubmission(ev'.msg) =>
        /\ ~gen'.called
        /\ IF Fresh
           THEN /\ replies' = <<Reply(EmptyText)>>
                /\ user_data' = Put(user_data, "last_request", now)
           ELSE /\ replies' = <<Reply(RateLimitText)>>
                /\ user_data' = user_data]_vars

\* C13 witness: a command-only message was admitted and answered with the
\* 'please send' error while an earlier submission is stored
C13_Witness ==
    /\ ev.op = "handle_message"
    /\ ev.msg = [text |-> "/unknown"]
    /\ replies = <<Reply(EmptyText)>>
    /\ Has(user_data, "last_content")
    /\ user_data["last_request"] = now

\* C14: a submission or Regenerate that the rate limiter rejects gets the
\* rate-limit notice, runs no generation and leaves the whole session as it
\* was.
C14_RejectedUnchanged ==
    [][ev'.op \in RateLimitedOps /\ ~Fresh =>
        /\ replies' = <<Reply(RateLimitText)>>
        /\ ~gen'.called
        /\ user_data' = user_data]_vars

\* C14 witness: a Regenerate with content, captions and an editing index
\* stored has been rejected
C14_Witness ==
    /\ ev.op = "regenerate"
    /\ ev.outcome = "rate_limited"
    /\ Has(user_data, "last_content")
    /\ Has(user_data, "last_captions")
    /\ Has(user_data, "editing")
    /\ Has(user_data, "platform")

\* the platform a handler reads from the session
CurrentPlatform == IF Has(user_data, "platform") THEN user_data["platform"] ELSE "default"

\* C15: a Regenerate that is admitted while last_content is stored runs the
\* generator on the stored last_content with the current platform, stores the
\* result as last_captions and leaves last_content (and everything but
\* last_request) as it was; the /regenerate command and the 'regenerate'
\* token make this same transition and send these same replies.
C15_Regenerate ==
    [][(ev'.op = "regenerate" \/ ev'.data = "regenerate") /\ Fresh /\ Has(user_data, "last_content") =>
        LET content == user_data["last_content"]
            r == Render(gen'.result.captions, CurrentPlatform)
        IN  /\ ev'.op = "regenerate"
            /\ gen'.called
            /\ gen'.content = content
            /\ gen'.platform = CurrentPlatform
            /\ gen'.result = generate_captions(content, CurrentPlatform, api_key, gen'.backend)
            /\ user_data' = Put(Put(user_data, "last_request", now), "last_captions", gen'.result.captions)
            /\ Len(replies') = 2
            /\ replies'[1] = Reply(RegeneratingText)
            /\ IF r.exc # "" THEN replies'[2] = Reply(ErrorText(r.exc))
               ELSE replies'[2] \in {ReplyMarkup(r.out, r.keyboard), TransportErrorReply}]_vars

\* C15 witness: the quick-action has regenerated and shown the captions of
\* the stored content for a platform the user had set
C15_Witness ==
    /\ ev.op = "regenerate"
    /\ ev.data = "regenerate"
    /\ ev.outcome = "rendered"
    /\ gen.content = user_data["last_content"]
    /\ gen.platform = "instagram"
    /\ user_data["last_captions"] = gen.result.captions

\* C16: a submission that has been admitted and whose content is stored, or
\* that is inside the request to the backend, eventually ends: its handler is
\* done, with captions stored in the session and a reply sent, whatever the
\* backend does.
C16_LeavesAwaitingGeneration ==
    \A s \in Slots :
        (tasks[s].op = "handle_message" /\ tasks[s].pc \in {"at222", "in_post"})
            ~> (/\ tasks[s].pc = "done"
                /\ tasks[s].outcome \in {"rendered", "error"}
                /\ Has(user_data, "last_captions")
                /\ Len(replies) > 0)

\* C16 witness: a submission whose request to the backend timed out has ended
\* with the captions of the fallback stored and shown
C16_Witness ==
    \E s \in Slots :
        /\ tasks[s].op = "handle_message"
        /\ tasks[s].pc = "done"
        /\ tasks[s].b.kind = "timeout"
        /\ tasks[s].outcome = "rendered"
        /\ ev.outcome = "rendered"
        /\ gen.called
        /\ gen.backend.kind = "timeout"
        /\ IsLocal(user_data["last_captions"])
        /\ Len(replies) > 0

C18_CaptionsImplyContent ==
    /\ [](Has(user_data, "last_captions") =>
            Has(user_data, "last_content") /\ Len(user_data["last_content"]) > 0)
    /\ [][Has(user_data, "last_content") =>
            Has(user_data', "last_content") /\ Len(user_data'["last_content"]) > 0]_vars

\* C18 witness: a command-only message has been handled after a submission
\* whose content and captions are stored
C18_Witness ==
    /\ ev.op = "handle_message"
    /\ ev.outcome = "empty"
    /\ Has(user_data, "last_captions")
    /\ Len(user_data["last_content"]) = 2

\* C19: last_request changes only when a request is admitted, and then to
\* the current time; a request made at least 10 seconds after last_request is
\* admitted.
C19_NoStarvation ==
    [][/\ ~Same(user_data', user_data, "last_request") =>
             /\ ev'.op \in RateLimitedOps
             /\ ev'.outcome # "rate_limited"
             /\ user_data'["last_request"] = now
       /\ (ev'.op \in RateLimitedOps /\ Has(user_data, "last_request")
             /\ now >= user_data["last_request"] + 10) => ev'.outcome # "rate_limited"]_vars

\* C19 witness: a Regenerate made 10 seconds or more after the start has
\* been admitted and has found the content of an earlier admitted submission
C19_Witness ==
    /\ ev.op = "regenerate"
    /\ ev.outcome \in {"rendered", "error"}
    /\ now >= 10
    /\ user_data["last_request"] = now

\* C20: without a key, an admitted Regenerate stores the captions that were
\* stored already, whatever the platform is by then.
C20_FallbackDeterministic ==
    [][~api_key /\ ev'.op = "regenerate" /\ gen'.called =>
        /\ Has(user_data, "last_captions")
        /\ user_data'["last_captions"] = user_data["last_captions"]]_vars

\* C20 witness: without a key, a Regenerate has run for the platform the
\* user set and the stored captions are the local generator's
C20_Witness ==
    /\ ~api_key
    /\ ev.op = "regenerate"
    /\ gen.called
    /\ gen.platform = "instagram"
    /\ IsLocal(user_data["last_captions"])

====
